---------------------------- MODULE Spec2Model ----------------------------
(***************************************************************************)
(* The snippet registry of src/text_snippets.cpp (class snippet_library): *)
(* the category index, the id index, the effect and name maps and the     *)
(* lazily built legacy-hash migration index, with the loaders, clear,     *)
(* the lookups, the random draws and migrate_hash_to_id.                  *)
(***************************************************************************)
EXTENDS Integers, Sequences, FiniteSets, TLC

VARIABLES snippets_by_category, snippets_by_id, EOC_by_id, name_by_id,
          hash_to_id_migration, last, stack, expanded

vars == <<snippets_by_category, snippets_by_id, EOC_by_id, name_by_id,
          hash_to_id_migration, last, stack, expanded>>

-----------------------------------------------------------------------------
(* Bounds of the model.                                                    *)

\* The loaders are not taken once the registry would hold more entries.
MaxEntries == 2
\* Longest "text" array handed to a loader.
MaxArr == 2
\* Deepest nesting of expand calls that is followed.
MaxDepth == 4

-----------------------------------------------------------------------------
(* Values.                                                                 *)

\* std::optional<T>: std::nullopt is the empty sequence, a value v is <<v>>.
None == << >>
Some(v) == <<v>>

\* snippet_id::NULL_ID()
NULL_ID == "null"
Ids == {"id1", "id2"}

Categories == {"<a>", "<b>"}

\* Source strings of translations read from JSON; the default constructed
\* translation is the empty string.
Texts == {"X", "Y", "Z"}
Names == {"N"}
empty_translation == ""

\* Opaque talk_effect_t<dialogue> payloads.
Effects == {"E"}

\* Legacy hashes asked of migrate_hash_to_id.
Hashes == {11, 12, 13}

\* Seeds handed to random_from_category( cat, seed ).
Seeds == {0, 1, 5, 5489}

\* translation::translated(): the display string of a source string.
translated(t) ==
    LET display == [X |-> "x", Y |-> "y", Z |-> "z", N |-> "n"]
    IN IF t \in DOMAIN display THEN display[t] ELSE t

\* translation::legacy_hash(): absent for a text without legacy form ("Z").
legacy_hash(t) ==
    CASE t = "X" -> Some(11)
      [] t = "Y" -> Some(12)
      [] OTHER -> None

-----------------------------------------------------------------------------
(* JSON inputs.                                                            *)

Opt(S) == {None} \cup {Some(v) : v \in S}

\* A JsonObject seen through the members the loaders read.  A member that
\* is absent (or unreadable) is None.
object(text, id, effect_on_examine, name) ==
    [kind |-> "object", text |-> text, id |-> id,
     effect_on_examine |-> effect_on_examine, name |-> name]

\* The objects handed to the loaders: with a usable id and a text, bare
\* or with both optional members; with a text and no id or the null id;
\* without "text" (after which the code reads no further member).
JsonObjects ==
    {object(Some("X"), Some("id1"), None, None),
     object(Some("X"), Some("id1"), Some("E"), Some("N")),
     object(Some("X"), Some("id2"), None, None),
     object(Some("Y"), Some("id2"), None, None),
     object(Some("Z"), Some("id2"), None, None),
     object(Some("X"), None, None, None),
     object(Some("X"), Some(NULL_ID), None, None),
     object(None, None, None, None),
     object(None, Some("id1"), None, None)}

\* A JsonValue of a "text" array: a string, an object, or anything else.
StringEntry(t) == [kind |-> "string", text |-> Some(t), id |-> None,
                   effect_on_examine |-> None, name |-> None]
NumberEntry == [kind |-> "number", text |-> None, id |-> None,
                effect_on_examine |-> None, name |-> None]

ArrayEntries ==
    {StringEntry("X"), NumberEntry, object(Some("X"), Some("id1"), None, None)}

RECURSIVE SeqsUpTo(_, _)
SeqsUpTo(S, n) ==
    IF n = 0 THEN {<< >>}
    ELSE LET shorter == SeqsUpTo(S, n - 1)
         IN shorter \cup {Append(q, e) : q \in {x \in shorter : Len(x) = n - 1},
                                         e \in S}

JsonArrays == SeqsUpTo(ArrayEntries, MaxArr)

\* The JsonObject handed to load_snippet: "category", and "text" either an
\* array (member array) or read by add_snippet_from_json.
load_object(category, array, jo) ==
    [category |-> category, array |-> array, text |-> jo.text, id |-> jo.id,
     effect_on_examine |-> jo.effect_on_examine, name |-> jo.name]

LoadObjects ==
    {load_object(Some(c), Some(a), object(None, None, None, None)) :
        c \in Categories,
        a \in SeqsUpTo({StringEntry("X"),
                        object(Some("Y"), Some("id2"), None, None)}, MaxArr)}
    \cup {load_object(Some(c), None, jo) :
            c \in Categories,
            jo \in {j \in JsonObjects : j.id # Some("id1")}}
    \cup {load_object(None, None, object(Some("X"), None, None, None))}

-----------------------------------------------------------------------------
(* The object and the state of a call in progress.                         *)

\* The members of snippet_library, and what a call has done so far: the
\* debugmsg calls it made, the exception it threw ("" while running), and
\* whether it wrote an index while the migration index was built.
this ==
    [snippets_by_category |-> snippets_by_category,
     snippets_by_id |-> snippets_by_id,
     EOC_by_id |-> EOC_by_id,
     name_by_id |-> name_by_id,
     hash_to_id_migration |-> hash_to_id_migration,
     debugmsg |-> 0, error |-> "", stale_write |-> FALSE]

\* std::unordered_map::operator[]= / insert of a fresh key
map_put(m, k, v) == [x \in DOMAIN m \cup {k} |-> IF x = k THEN v ELSE m[x]]

empty_map == [x \in {} |-> None]

\* category_snippets{}: what snippets_by_category[category] creates
category_snippets == [ids |-> << >>, no_id |-> << >>]

\* snippets_by_category[category]
category_at(m, category) ==
    IF category \in DOMAIN m THEN m[category] ELSE category_snippets

\* JsonObject::throw_error and friends: the call ends here
throw(r, what) == [r EXCEPT !.error = what]

\* invalidate with the reset of the migration index left out.
invalidate_keeps_index(r) ==
    [r EXCEPT !.debugmsg = IF r.hash_to_id_migration # None THEN @ + 1 ELSE @]

\* invalidate that resets the migration index without a diagnostic.
invalidate_silent(r) == [r EXCEPT !.hash_to_id_migration = None]

\* if( hash_to_id_migration.has_value() ) { debugmsg( ... ); }
\* hash_to_id_migration = std::nullopt;
invalidate(r) ==
    [r EXCEPT !.debugmsg = IF r.hash_to_id_migration # None THEN @ + 1 ELSE @,
              !.hash_to_id_migration = None]

\* A write to an index, noting whether the migration index was built.
wrote(r) ==
    [r EXCEPT !.stale_write = @ \/ (r.hash_to_id_migration # None)]

\* snippets_by_category[category].no_id.emplace_back( text )
push_no_id(r, category, text) ==
    LET cs == category_at(r.snippets_by_category, category)
    IN [wrote(r) EXCEPT !.snippets_by_category =
            map_put(@, category, [cs EXCEPT !.no_id = Append(@, text)])]

\* snippets_by_category[category].ids.emplace_back( id )
push_id(r, category, id) ==
    LET cs == category_at(r.snippets_by_category, category)
    IN [wrote(r) EXCEPT !.snippets_by_category =
            map_put(@, category, [cs EXCEPT !.ids = Append(@, id)])]

\* add_snippet_from_json without the duplicate check: the id is stored again.
add_snippet_from_json_no_duplicate_check(r0, category, jo) ==
    LET r1 == invalidate(r0)
    IN IF jo.text = None THEN throw(r1, "MalformedEntry")
       ELSE IF jo.id = None THEN push_no_id(r1, category, jo.text[1])
       ELSE IF jo.id[1] = NULL_ID THEN throw(r1, "InvalidId")
       ELSE LET r2 == push_id(r1, category, jo.id[1])
            IN [r2 EXCEPT !.snippets_by_id = map_put(@, jo.id[1], jo.text[1]),
                          !.name_by_id = map_put(@, jo.id[1], empty_translation)]

\* add_snippet_from_json looking for the id among the ids of its own
\* category only.
add_snippet_from_json_category_check(r0, category, jo) ==
    LET r1 == invalidate(r0)
        own == category_at(r1.snippets_by_category, category).ids
    IN IF jo.text = None THEN throw(r1, "MalformedEntry")
       ELSE IF jo.id = None THEN push_no_id(r1, category, jo.text[1])
       ELSE IF jo.id[1] = NULL_ID THEN throw(r1, "InvalidId")
       ELSE IF \E i \in DOMAIN own : own[i] = jo.id[1]
       THEN throw(r1, "DuplicateId")
       ELSE LET r2 == push_id(r1, category, jo.id[1])
            IN [r2 EXCEPT !.snippets_by_id = map_put(@, jo.id[1], jo.text[1]),
                          !.name_by_id = map_put(@, jo.id[1], empty_translation)]

\* add_snippet_from_json that registers the id in the category before it
\* looks the id up.
add_snippet_from_json_registers_first(r0, category, jo) ==
    LET r1 == invalidate(r0)
    IN IF jo.text = None THEN throw(r1, "MalformedEntry")
       ELSE LET text == jo.text[1]
            IN IF jo.id # None
               THEN LET id == jo.id[1]
                        r2 == push_id(r1, category, id)
                    IN IF id = NULL_ID THEN throw(r2, "InvalidId")
                       ELSE IF id \in DOMAIN r1.snippets_by_id
                       THEN throw(r2, "DuplicateId")
                       ELSE LET r3 == [r2 EXCEPT !.snippets_by_id =
                                          map_put(@, id, text)]
                                r4 == IF jo.effect_on_examine # None
                                      THEN [r3 EXCEPT !.EOC_by_id =
                                          map_put(@, id, jo.effect_on_examine[1])]
                                      ELSE r3
                                name == IF jo.name # None THEN jo.name[1]
                                        ELSE empty_translation
                            IN [r4 EXCEPT !.name_by_id = map_put(@, id, name)]
               ELSE push_no_id(r1, category, text)

add_snippet_from_json(r0, category, jo) ==
    LET r1 == invalidate(r0)
    IN IF jo.text = None THEN throw(r1, "MalformedEntry")
       ELSE LET text == jo.text[1]
            IN IF jo.id # None
               THEN LET id == jo.id[1]
                    IN IF id = NULL_ID THEN throw(r1, "InvalidId")
                       ELSE IF id \in DOMAIN r1.snippets_by_id
                       THEN throw(r1, "DuplicateId")
                       ELSE LET r2 == push_id(r1, category, id)
                                r3 == [r2 EXCEPT !.snippets_by_id =
                                          map_put(@, id, text)]
                                r4 == IF jo.effect_on_examine # None
                                      THEN [r3 EXCEPT !.EOC_by_id =
                                          map_put(@, id, jo.effect_on_examine[1])]
                                      ELSE r3
                                name == IF jo.name # None THEN jo.name[1]
                                        ELSE empty_translation
                            IN [r4 EXCEPT !.name_by_id = map_put(@, id, name)]
               ELSE push_no_id(r1, category, text)

\* The loop of add_snippets_from_json over the entries from the i-th on.
RECURSIVE add_entries(_, _, _, _)
add_entries(r, category, jarr, i) ==
    IF i > Len(jarr) \/ r.error # "" THEN r
    ELSE LET entry == jarr[i]
             r1 == IF entry.kind = "string"
                   THEN push_no_id(r, category, entry.text[1])
                   ELSE IF entry.kind = "object"
                   THEN add_snippet_from_json(r, category, entry)
                   ELSE throw(r, "MalformedEntry")
         IN add_entries(r1, category, jarr, i + 1)

\* add_snippets_from_json that reaches snippets_by_category[category]
\* before it reads the array.
add_snippets_from_json_creates_category(r0, category, jarr) ==
    LET r1 == invalidate(r0)
    IN add_entries([r1 EXCEPT !.snippets_by_category =
                       map_put(@, category, category_at(@, category))],
                   category, jarr, 1)

add_snippets_from_json(r0, category, jarr) ==
    add_entries(invalidate(r0), category, jarr, 1)

load_snippet(r0, jsobj) ==
    LET r1 == invalidate(r0)
    IN IF jsobj.category = None THEN throw(r1, "MalformedEntry")
       ELSE IF jsobj.array # None
       THEN add_snippets_from_json(r1, jsobj.category[1], jsobj.array[1])
       ELSE add_snippet_from_json(r1, jsobj.category[1], jsobj)

\* clear_snippets leaving the migration index as it is.
clear_snippets_keeps_migration(r) ==
    [r EXCEPT !.snippets_by_category = empty_map,
              !.snippets_by_id = empty_map]

\* clear_snippets leaving the category index as it is.
clear_snippets_keeps_categories(r) ==
    [r EXCEPT !.hash_to_id_migration = None,
              !.snippets_by_id = empty_map]

clear_snippets(r) ==
    [r EXCEPT !.hash_to_id_migration = None,
              !.snippets_by_category = empty_map,
              !.snippets_by_id = empty_map]

-----------------------------------------------------------------------------
(* Lookups.                                                                *)

has_category(r, category) == category \in DOMAIN r.snippets_by_category

get_snippet_by_id(r, id) ==
    IF id \notin DOMAIN r.snippets_by_id THEN None
    ELSE Some(r.snippets_by_id[id])

get_EOC_by_id(r, id) ==
    IF id \notin DOMAIN r.EOC_by_id THEN None ELSE Some(r.EOC_by_id[id])

get_name_by_id(r, id) ==
    IF id \notin DOMAIN r.name_by_id THEN None ELSE Some(r.name_by_id[id])

get_snippet_ref_by_id(r, id) ==
    IF id \notin DOMAIN r.snippets_by_id THEN empty_translation
    ELSE r.snippets_by_id[id]

has_snippet_with_id(r, id) == id \in DOMAIN r.snippets_by_id

-----------------------------------------------------------------------------
(* Random selection.                                                       *)

\* The first output of std::mt19937( seed ), its upper 16 of 32 bits.
mt19937(seed) ==
    CASE seed = 0 -> 35967
      [] seed = 1 -> 27329
      [] seed = 5 -> 14548
      [] seed = 5489 -> 53393

\* std::uniform_int_distribution<size_t> dis( 0, count - 1 ) applied to a
\* freshly seeded generator: the first output scaled down to [0, count).
dis(seed, count) == (mt19937(seed) * count) \div 65536

\* random_from_category resolving an id through name_by_id.
random_from_category_by_name(r, cat, seed) ==
    IF cat \notin DOMAIN r.snippets_by_category THEN None
    ELSE LET it == r.snippets_by_category[cat]
         IN IF it.ids = << >> /\ it.no_id = << >> THEN None
            ELSE LET count == Len(it.ids) + Len(it.no_id)
                     index == dis(seed, count)
                 IN IF index < Len(it.ids)
                    THEN get_name_by_id(r, it.ids[index + 1])
                    ELSE Some(it.no_id[index - Len(it.ids) + 1])

\* random_from_category with the anonymous texts before the ids.
random_from_category_no_id_first(r, cat, seed) ==
    IF cat \notin DOMAIN r.snippets_by_category THEN None
    ELSE LET it == r.snippets_by_category[cat]
         IN IF it.ids = << >> /\ it.no_id = << >> THEN None
            ELSE LET count == Len(it.ids) + Len(it.no_id)
                     index == dis(seed, count)
                 IN IF index < Len(it.no_id)
                    THEN Some(it.no_id[index + 1])
                    ELSE get_snippet_by_id(r, it.ids[index - Len(it.no_id) + 1])

\* random_from_category( cat, seed ); vectors are indexed from 0 in the
\* code and from 1 here.
random_from_category(r, cat, seed) ==
    IF cat \notin DOMAIN r.snippets_by_category THEN None
    ELSE LET it == r.snippets_by_category[cat]
         IN IF it.ids = << >> /\ it.no_id = << >> THEN None
            ELSE LET count == Len(it.ids) + Len(it.no_id)
                     index == dis(seed, count)
                 IN IF index < Len(it.ids)
                    THEN get_snippet_by_id(r, it.ids[index + 1])
                    ELSE Some(it.no_id[index - Len(it.ids) + 1])

\* random_id_from_category giving up on a category with anonymous texts.
random_id_from_category_ids_only(r, cat, pick) ==
    IF cat \notin DOMAIN r.snippets_by_category
    THEN [ret |-> NULL_ID, debugmsg |-> 0]
    ELSE LET it == r.snippets_by_category[cat]
         IN IF it.no_id # << >> THEN [ret |-> NULL_ID, debugmsg |-> 1]
            ELSE IF it.ids = << >> THEN [ret |-> NULL_ID, debugmsg |-> 0]
            ELSE [ret |-> it.ids[pick + 1], debugmsg |-> 0]

\* random_id_from_category( cat ); random_entry draws position pick, in
\* [0, size), from the process-wide engine.  The result and the debugmsg
\* calls.
random_id_from_category(r, cat, pick) ==
    IF cat \notin DOMAIN r.snippets_by_category
    THEN [ret |-> NULL_ID, debugmsg |-> 0]
    ELSE LET it == r.snippets_by_category[cat]
             msgs == IF it.no_id # << >> THEN 1 ELSE 0
         IN IF it.ids = << >> THEN [ret |-> NULL_ID, debugmsg |-> msgs]
            ELSE [ret |-> it.ids[pick + 1], debugmsg |-> msgs]

-----------------------------------------------------------------------------
(* Hash migration.                                                         *)

\* The orders in which the loop over snippets_by_id may visit its keys.
Orders(S) ==
    {o \in [1..Cardinality(S) -> S] : \A x \in S : \E i \in DOMAIN o : o[i] = x}

\* The loop of migrate_hash_to_id over the keys from the i-th on: emplace
\* keeps the id a hash already has.
RECURSIVE build_migration(_, _, _, _)
build_migration(r, order, i, m) ==
    IF i > Len(order) THEN m
    ELSE LET id == order[i]
             hash == legacy_hash(r.snippets_by_id[id])
         IN build_migration(r, order, i + 1,
                IF hash # None /\ hash[1] \notin DOMAIN m
                THEN map_put(m, hash[1], id) ELSE m)

\* migrate_hash_to_id that builds the index on every call.
migrate_hash_to_id_rebuilds(r, old_hash, order) ==
    LET r1 == [r EXCEPT !.hash_to_id_migration =
                  Some(build_migration(r, order, 1, empty_map))]
        m == r1.hash_to_id_migration[1]
    IN [reg |-> r1,
        ret |-> IF old_hash \notin DOMAIN m THEN NULL_ID ELSE m[old_hash]]

\* The registry after migrate_hash_to_id, and the id it returns.
migrate_hash_to_id(r, old_hash, order) ==
    LET r1 == IF r.hash_to_id_migration = None
              THEN [r EXCEPT !.hash_to_id_migration =
                       Some(build_migration(r, order, 1, empty_map))]
              ELSE r
        m == r1.hash_to_id_migration[1]
    IN [reg |-> r1,
        ret |-> IF old_hash \notin DOMAIN m THEN NULL_ID ELSE m[old_hash]]

-----------------------------------------------------------------------------
(* Listing.                                                                *)

RECURSIVE id_descs(_, _, _)
id_descs(r, ids, i) ==
    IF i > Len(ids) THEN << >>
    ELSE << <<ids[i], translated(get_snippet_ref_by_id(r, ids[i]))>> >>
         \o id_descs(r, ids, i + 1)

\* get_snippets_by_category with the sentinel whenever it is asked for.
get_snippets_by_category_sentinel_always(r, cat, add_null_id) ==
    IF ~has_category(r, cat) THEN << >>
    ELSE LET snipps == r.snippets_by_category[cat]
             head == IF add_null_id THEN << <<NULL_ID, "">> >> ELSE << >>
         IN head \o id_descs(r, snipps.ids, 1)

get_snippets_by_category(r, cat, add_null_id) ==
    IF ~has_category(r, cat) THEN << >>
    ELSE LET snipps == r.snippets_by_category[cat]
             head == IF add_null_id /\ snipps.ids # << >>
                     THEN << <<NULL_ID, "">> >> ELSE << >>
         IN head \o id_descs(r, snipps.ids, 1)

-----------------------------------------------------------------------------
(* Tag expansion.                                                          *)

\* The characters of a std::string.
characters ==
    [s \in {"", "x", "y", "z", "n", "a", "<a>", "<b>"} |->
        CASE s = "" -> << >>
          [] s = "x" -> <<"x">>
          [] s = "y" -> <<"y">>
          [] s = "z" -> <<"z">>
          [] s = "n" -> <<"n">>
          [] s = "a" -> <<"a">>
          [] s = "<a>" -> <<"<", "a", ">">>
          [] s = "<b>" -> <<"<", "b", ">">>]

spell(s) == characters[s]

\* The key of snippets_by_category spelled as symbol; "" when there is none.
string(r, symbol) ==
    LET keys == {c \in DOMAIN r.snippets_by_category : spell(c) = symbol}
    IN IF keys = {} THEN "" ELSE CHOOSE c \in keys : TRUE

\* std::string::npos, and positions counted from 1.
npos == 0

\* str.find( ch, pos )
RECURSIVE find(_, _, _)
find(str, ch, pos) ==
    IF pos > Len(str) THEN npos
    ELSE IF str[pos] = ch THEN pos
    ELSE find(str, ch, pos + 1)

\* str.substr( pos ) and str.substr( pos, n ), by first and last position.
substr(str, first, lst) == SubSeq(str, first, lst)

\* An activation of expand( str ): the call it was made for ("top" for the
\* caller's, "repl" for the drawn text, "rest" for the remainder), and once
\* the string is scanned the three operands of the returned concatenation,
\* an operand that is a nested expand being None until that call returns.
frame(str, slot) ==
    [str |-> str, slot |-> slot, pc |-> "start", prefix |-> << >>,
     repl |-> << >>, rest |-> << >>, r1 |-> None, r2 |-> None]

\* The activation once the string is scanned.
operands(f, prefix, repl, rest, r1, r2) ==
    [f EXCEPT !.pc = "scanned", !.prefix = prefix, !.repl = repl,
              !.rest = rest, !.r1 = r1, !.r2 = r2]

\* size_t tag_begin = str.find( '<' );
tag_begin(str) == find(str, "<", 1)

\* size_t tag_end = str.find( '>', tag_begin + 1 );
tag_end(str) ==
    IF tag_begin(str) = npos THEN npos ELSE find(str, ">", tag_begin(str) + 1)

\* expand that, finding no snippet, keeps only the '<' and goes on just
\* after it.
scan_rescans(r, f, rng_bits) ==
    LET str == f.str
        b == tag_begin(str)
        e == tag_end(str)
    IN IF b = npos \/ e = npos
       THEN operands(f, str, << >>, << >>, Some(<< >>), Some(<< >>))
       ELSE LET replacement ==
                    random_from_category(r, string(r, substr(str, b, e)),
                                         rng_bits)
            IN IF replacement = None
               THEN operands(f, substr(str, 1, b), << >>,
                             substr(str, b + 1, Len(str)), Some(<< >>), None)
               ELSE operands(f, substr(str, 1, b - 1),
                             spell(translated(replacement[1])),
                             substr(str, e + 1, Len(str)), None, None)

\* expand that inserts the drawn text as it is.
scan_inserts_drawn(r, f, rng_bits) ==
    LET str == f.str
        b == tag_begin(str)
        e == tag_end(str)
    IN IF b = npos \/ e = npos
       THEN operands(f, str, << >>, << >>, Some(<< >>), Some(<< >>))
       ELSE LET replacement ==
                    random_from_category(r, string(r, substr(str, b, e)),
                                         rng_bits)
            IN IF replacement = None
               THEN operands(f, substr(str, 1, e), << >>,
                             substr(str, e + 1, Len(str)), Some(<< >>), None)
               ELSE operands(f, substr(str, 1, b - 1), << >>,
                             substr(str, e + 1, Len(str)),
                             Some(spell(translated(replacement[1]))), None)

\* expand that looks up the text between the delimiters.
scan_bare_symbol(r, f, rng_bits) ==
    LET str == f.str
        b == tag_begin(str)
        e == tag_end(str)
    IN IF b = npos \/ e = npos
       THEN operands(f, str, << >>, << >>, Some(<< >>), Some(<< >>))
       ELSE LET replacement ==
                    random_from_category(r,
                                         string(r, substr(str, b + 1, e - 1)),
                                         rng_bits)
            IN IF replacement = None
               THEN operands(f, substr(str, 1, e), << >>,
                             substr(str, e + 1, Len(str)), Some(<< >>), None)
               ELSE operands(f, substr(str, 1, b - 1),
                             spell(translated(replacement[1])),
                             substr(str, e + 1, Len(str)), None, None)

\* expand that, finding no snippet, goes on from the tag itself.
scan_no_progress(r, f, rng_bits) ==
    LET str == f.str
        b == tag_begin(str)
        e == tag_end(str)
    IN IF b = npos \/ e = npos
       THEN operands(f, str, << >>, << >>, Some(<< >>), Some(<< >>))
       ELSE LET replacement ==
                    random_from_category(r, string(r, substr(str, b, e)),
                                         rng_bits)
            IN IF replacement = None
               THEN operands(f, substr(str, 1, b - 1), << >>,
                             substr(str, b, Len(str)), Some(<< >>), None)
               ELSE operands(f, substr(str, 1, b - 1),
                             spell(translated(replacement[1])),
                             substr(str, e + 1, Len(str)), None, None)

\* expand up to its return statement, rng_bits being the seed that
\* random_from_category( symbol ) takes from the process-wide engine.
\*   no tag:      return str;
\*   no snippet:  return str.substr( 0, tag_end + 1 )
\*                       + expand( str.substr( tag_end + 1 ) );
\*   otherwise:   return str.substr( 0, tag_begin )
\*                       + expand( replacement.value().translated() )
\*                       + expand( str.substr( tag_end + 1 ) );
scan(r, f, rng_bits) ==
    LET str == f.str
    IN IF tag_begin(str) = npos \/ tag_end(str) = npos
       THEN operands(f, str, << >>, << >>, Some(<< >>), Some(<< >>))
       ELSE LET symbol == substr(str, tag_begin(str), tag_end(str))
                replacement ==
                    random_from_category(r, string(r, symbol), rng_bits)
            IN IF replacement = None
               THEN operands(f, substr(str, 1, tag_end(str)), << >>,
                             substr(str, tag_end(str) + 1, Len(str)),
                             Some(<< >>), None)
               ELSE operands(f, substr(str, 1, tag_begin(str) - 1),
                             spell(translated(replacement[1])),
                             substr(str, tag_end(str) + 1, Len(str)),
                             None, None)

\* The nested calls of a scanned activation that are still to be made.
pending(f) ==
    (IF f.r1 = None THEN {"repl"} ELSE {})
        \cup (IF f.r2 = None THEN {"rest"} ELSE {})

\* The value a scanned activation returns once its nested calls have.
value(f) == f.prefix \o f.r1[1] \o f.r2[1]

\* The activation that receives v from the nested call made for slot.
receive(f, slot, v) ==
    IF slot = "repl" THEN [f EXCEPT !.r1 = Some(v)]
    ELSE [f EXCEPT !.r2 = Some(v)]

-----------------------------------------------------------------------------
(* The state machine: one action per member function.                      *)

\* Entries held by the category index.
RECURSIVE entry_count(_, _)
entry_count(m, cats) ==
    IF cats = {} THEN 0
    ELSE LET c == CHOOSE x \in cats : TRUE
         IN Len(m[c].ids) + Len(m[c].no_id) + entry_count(m, cats \ {c})

within_bounds(r) ==
    entry_count(r.snippets_by_category, DOMAIN r.snippets_by_category)
        <= MaxEntries

\* The call that was made last: the function, the exception it threw, its
\* debugmsg calls, and whether it wrote an index under a built migration
\* index.
call(op, args, ret, error, debugmsg, stale_write) ==
    [op |-> op, error |-> error, debugmsg |-> debugmsg,
     stale_write |-> stale_write]

\* The members after a call that left the object as r.
becomes(r) ==
    /\ snippets_by_category' = r.snippets_by_category
    /\ snippets_by_id' = r.snippets_by_id
    /\ EOC_by_id' = r.EOC_by_id
    /\ name_by_id' = r.name_by_id
    /\ hash_to_id_migration' = r.hash_to_id_migration

members == <<snippets_by_category, snippets_by_id, EOC_by_id, name_by_id,
             hash_to_id_migration>>

\* expand is not running: no member function is called from within it.
idle == stack = << >>

\* The call returned (or threw): it is the last call, and what the last
\* expand returned is gone.
returned(c) ==
    /\ last' = c
    /\ stack' = << >>
    /\ expanded' = None

Init ==
    /\ snippets_by_category = empty_map
    /\ snippets_by_id = empty_map
    /\ EOC_by_id = empty_map
    /\ name_by_id = empty_map
    /\ hash_to_id_migration = None
    /\ last = call("snippet_library", << >>, None, "", 0, FALSE)
    /\ stack = << >>
    /\ expanded = None

LoadSnippet ==
    /\ idle
    /\ \E jsobj \in LoadObjects :
        LET r == load_snippet(this, jsobj)
        IN /\ within_bounds(r)
           /\ becomes(r)
           /\ returned(call("load_snippet", <<jsobj>>, None, r.error,
                           r.debugmsg, r.stale_write))

AddSnippetsFromJson ==
    /\ idle
    /\ \E category \in Categories, jarr \in JsonArrays :
        LET r == add_snippets_from_json(this, category, jarr)
        IN /\ within_bounds(r)
           /\ becomes(r)
           /\ returned(call("add_snippets_from_json", <<category, jarr>>, None,
                           r.error, r.debugmsg, r.stale_write))

AddSnippetFromJson ==
    /\ idle
    /\ \E category \in Categories, jo \in JsonObjects :
        LET r == add_snippet_from_json(this, category, jo)
        IN /\ within_bounds(r)
           /\ becomes(r)
           /\ returned(call("add_snippet_from_json", <<category, jo>>, None,
                           r.error, r.debugmsg, r.stale_write))

ClearSnippets ==
    /\ idle
    /\ becomes(clear_snippets(this))
    /\ returned(call("clear_snippets", << >>, None, "", 0, FALSE))

HasCategory ==
    /\ idle
    /\ \E category \in Categories :
        /\ returned(call("has_category", <<category>>,
                        has_category(this, category), "", 0, FALSE))
        /\ UNCHANGED members

GetSnippetById ==
    /\ idle
    /\ \E id \in Ids \cup {NULL_ID} :
        /\ returned(call("get_snippet_by_id", <<id>>,
                        get_snippet_by_id(this, id), "", 0, FALSE))
        /\ UNCHANGED members

GetEOCById ==
    /\ idle
    /\ \E id \in Ids \cup {NULL_ID} :
        /\ returned(call("get_EOC_by_id", <<id>>,
                        get_EOC_by_id(this, id), "", 0, FALSE))
        /\ UNCHANGED members

GetNameById ==
    /\ idle
    /\ \E id \in Ids \cup {NULL_ID} :
        /\ returned(call("get_name_by_id", <<id>>,
                        get_name_by_id(this, id), "", 0, FALSE))
        /\ UNCHANGED members

GetSnippetRefById ==
    /\ idle
    /\ \E id \in Ids \cup {NULL_ID} :
        /\ returned(call("get_snippet_ref_by_id", <<id>>,
                        get_snippet_ref_by_id(this, id), "", 0, FALSE))
        /\ UNCHANGED members

HasSnippetWithId ==
    /\ idle
    /\ \E id \in Ids \cup {NULL_ID} :
        /\ returned(call("has_snippet_with_id", <<id>>,
                        has_snippet_with_id(this, id), "", 0, FALSE))
        /\ UNCHANGED members

\* The positions random_entry can draw from the ids of a category.
picks(r, cat) ==
    LET n == Len(category_at(r.snippets_by_category, cat).ids)
    IN IF n = 0 THEN {0} ELSE 0..(n - 1)

RandomIdFromCategory ==
    /\ idle
    /\ \E cat \in Categories :
        \E pick \in picks(this, cat) :
            LET res == random_id_from_category(this, cat, pick)
            IN /\ returned(call("random_id_from_category", <<cat>>, res.ret,
                               "", res.debugmsg, FALSE))
               /\ UNCHANGED members

\* random_from_category( cat ): the seed is rng_bits() of the process-wide
\* engine.
RandomFromCategory ==
    /\ idle
    /\ \E cat \in Categories, rng_bits \in Seeds :
        /\ returned(call("random_from_category", <<cat>>,
                        random_from_category(this, cat, rng_bits), "", 0, FALSE))
        /\ UNCHANGED members

RandomFromCategorySeed ==
    /\ idle
    /\ \E cat \in Categories, seed \in Seeds :
        /\ returned(call("random_from_category_seed", <<cat, seed>>,
                        random_from_category(this, cat, seed), "", 0, FALSE))
        /\ UNCHANGED members

MigrateHashToId ==
    /\ idle
    /\ \E old_hash \in Hashes, order \in Orders(DOMAIN snippets_by_id) :
        LET res == migrate_hash_to_id(this, old_hash, order)
        IN /\ becomes(res.reg)
           /\ returned(call("migrate_hash_to_id", <<old_hash>>, res.ret,
                           "", 0, FALSE))

\* get_snippets_by_category that reaches the category through operator[].
GetSnippetsByCategory_creates ==
    /\ idle
    /\ \E cat \in Categories, add_null_id \in BOOLEAN :
        /\ returned(call("get_snippets_by_category", <<cat, add_null_id>>,
                        get_snippets_by_category(this, cat, add_null_id),
                        "", 0, FALSE))
        /\ snippets_by_category' =
               map_put(snippets_by_category, cat,
                       category_at(snippets_by_category, cat))
        /\ UNCHANGED <<snippets_by_id, EOC_by_id, name_by_id,
                       hash_to_id_migration>>

GetSnippetsByCategory ==
    /\ idle
    /\ \E cat \in Categories, add_null_id \in BOOLEAN :
        /\ returned(call("get_snippets_by_category", <<cat, add_null_id>>,
                        get_snippets_by_category(this, cat, add_null_id),
                        "", 0, FALSE))
        /\ UNCHANGED members

\* The strings handed to expand.
ExpandInputs ==
    {<<"<", "a", ">">>,
     <<"p", "<", "b", ">", "q", "<", "a">>,
     <<"<", "q", "<", "a", ">", "<", "b", ">">>}

top == stack[Len(stack)]

\* expand( str ) is called.
Expand ==
    /\ idle
    /\ \E str \in ExpandInputs :
          stack' = <<frame(str, "top")>>
    /\ last' = call("expand", << >>, None, "", 0, FALSE)
    /\ expanded' = None
    /\ UNCHANGED members

\* The innermost expand runs up to its return statement.
ExpandScan ==
    /\ ~idle
    /\ top.pc = "start"
    /\ \E rng_bits \in Seeds :
          stack' = [stack EXCEPT ![Len(stack)] = scan(this, top, rng_bits)]
    /\ UNCHANGED <<members, last, expanded>>

\* The innermost expand makes one of the nested calls of its return
\* statement; the operands of + are evaluated in either order.
ExpandRecurse ==
    /\ ~idle
    /\ top.pc = "scanned"
    /\ Len(stack) < MaxDepth
    /\ \E slot \in pending(top) :
          stack' = Append(stack,
                          frame(IF slot = "repl" THEN top.repl ELSE top.rest,
                                slot))
    /\ UNCHANGED <<members, last, expanded>>

\* The innermost expand returns, to the expand that called it or to the
\* caller of expand.
ExpandReturn ==
    /\ ~idle
    /\ top.pc = "scanned"
    /\ pending(top) = {}
    /\ IF Len(stack) = 1
       THEN /\ stack' = << >>
            /\ expanded' = Some([str |-> top.str, ret |-> value(top)])
       ELSE /\ stack' = [SubSeq(stack, 1, Len(stack) - 1)
                            EXCEPT ![Len(stack) - 1] =
                                receive(@, top.slot, value(top))]
            /\ UNCHANGED expanded
    /\ UNCHANGED <<members, last>>

Next ==
    \/ LoadSnippet
    \/ AddSnippetsFromJson
    \/ AddSnippetFromJson
    \/ ClearSnippets
    \/ HasCategory
    \/ GetSnippetById
    \/ GetEOCById
    \/ GetNameById
    \/ GetSnippetRefById
    \/ HasSnippetWithId
    \/ RandomIdFromCategory
    \/ RandomFromCategory
    \/ RandomFromCategorySeed
    \/ MigrateHashToId
    \/ GetSnippetsByCategory
    \/ Expand
    \/ ExpandScan
    \/ ExpandRecurse
    \/ ExpandReturn

Spec == Init /\ [][Next]_vars

\* A snippet_library just constructed.
snippet_library ==
    [snippets_by_category |-> empty_map, snippets_by_id |-> empty_map,
     EOC_by_id |-> empty_map, name_by_id |-> empty_map,
     hash_to_id_migration |-> None,
     debugmsg |-> 0, error |-> "", stale_write |-> FALSE]

\* "text" arrays of strings only.
strings(S, n) == SeqsUpTo({StringEntry(t) : t \in S}, n)

\* Libraries whose texts hold tags: every array of texts loaded for "<a>",
\* some for "<b>", and a category named without delimiters.
TagLibraries ==
    {add_snippets_from_json(
         add_snippets_from_json(
             add_snippets_from_json(snippet_library, "<a>", a), "<b>", b),
         "a", bare) :
        a \in strings({"X", "<a>", "<b>"}, MaxArr),
        b \in {<< >>, <<StringEntry("Y")>>, <<StringEntry("<a>")>>},
        bare \in strings({"X"}, 1)}

InitExpand ==
    /\ \E r \in TagLibraries :
          /\ snippets_by_category = r.snippets_by_category
          /\ snippets_by_id = r.snippets_by_id
          /\ EOC_by_id = r.EOC_by_id
          /\ name_by_id = r.name_by_id
          /\ hash_to_id_migration = r.hash_to_id_migration
    /\ last = call("add_snippets_from_json", << >>, None, "", 0, FALSE)
    /\ stack = << >>
    /\ expanded = None

NextExpand ==
    \/ Expand
    \/ ExpandScan
    \/ ExpandRecurse
    \/ ExpandReturn

\* expand on a loaded library.  A call that is running keeps running: each
\* step of expand that can be taken is taken.
SpecExpand ==
    /\ InitExpand
    /\ [][NextExpand]_vars
    /\ WF_vars(ExpandScan)
    /\ WF_vars(ExpandRecurse)
    /\ WF_vars(ExpandReturn)

-----------------------------------------------------------------------------
(* Properties.                                                             *)

LoadOps == {"load_snippet", "add_snippets_from_json", "add_snippet_from_json"}

AllIds == Ids \cup {NULL_ID}

\* The step is add_snippet_from_json( category, jo ).
AddSnippetFromJsonStep(category, jo) ==
    LET r == add_snippet_from_json(this, category, jo)
    IN /\ becomes(r)
       /\ last' = call("add_snippet_from_json", <<category, jo>>, None,
                       r.error, r.debugmsg, r.stale_write)

\* Some entry of the id index has legacy hash h.
has_hash(h) ==
    \E id \in DOMAIN snippets_by_id : legacy_hash(snippets_by_id[id]) = Some(h)

\* Occurrences of id in the id sequences of all categories.
occurrences(id) ==
    Cardinality({<<c, i>> \in (DOMAIN snippets_by_category) \X (1..MaxEntries + 1) :
                    /\ i <= Len(snippets_by_category[c].ids)
                    /\ snippets_by_category[c].ids[i] = id})

\* A category with identified and with anonymous entries.
mixed(c) ==
    /\ c \in DOMAIN snippets_by_category
    /\ snippets_by_category[c].ids # << >>
    /\ snippets_by_category[c].no_id # << >>

\* C1: in the state right after clear_snippets() all four maps are empty
\* and the migration index is absent, so every lookup by id or by category
\* finds nothing.
C1_ClearResetsRegistry ==
    last.op = "clear_snippets" =>
        /\ DOMAIN snippets_by_category = {}
        /\ DOMAIN snippets_by_id = {}
        /\ DOMAIN EOC_by_id = {}
        /\ DOMAIN name_by_id = {}
        /\ hash_to_id_migration = None
        /\ \A id \in AllIds :
              /\ get_snippet_by_id(this, id) = None
              /\ get_EOC_by_id(this, id) = None
              /\ get_name_by_id(this, id) = None
              /\ ~has_snippet_with_id(this, id)
        /\ \A c \in Categories : ~has_category(this, c)

\* C2 as stated: every add_snippet_from_json whose id is a key of the id
\* index throws DuplicateId, and right after clear_snippets() an entry with
\* a text and a non-null id is registered without error.
C2_DuplicateIdAlways ==
    [][last'.op = "add_snippet_from_json" =>
        \A category \in Categories, jo \in JsonObjects :
          AddSnippetFromJsonStep(category, jo) =>
              /\ (jo.id # None /\ jo.id[1] \in DOMAIN snippets_by_id)
                    => last'.error = "DuplicateId"
              /\ (last.op = "clear_snippets" /\ jo.text # None
                      /\ jo.id # None /\ jo.id[1] # NULL_ID)
                    => (last'.error = "" /\ jo.id[1] \in DOMAIN snippets_by_id')
      ]_vars

\* C2 amended: an add_snippet_from_json with a readable text whose id is a
\* key of the id index (registered in any category) throws DuplicateId, and
\* right after clear_snippets() an entry with a text and a non-null id is
\* registered without error.
C2_DuplicateIdWithText ==
    [][last'.op = "add_snippet_from_json" =>
        \A category \in Categories, jo \in JsonObjects :
          AddSnippetFromJsonStep(category, jo) =>
              /\ (jo.text # None /\ jo.id # None
                      /\ jo.id[1] \in DOMAIN snippets_by_id)
                    => last'.error = "DuplicateId"
              /\ (last.op = "clear_snippets" /\ jo.text # None
                      /\ jo.id # None /\ jo.id[1] # NULL_ID)
                    => (last'.error = "" /\ jo.id[1] \in DOMAIN snippets_by_id')
      ]_vars

\* An add_snippet_from_json threw DuplicateId while a single category
\* existed.
C2_Witness ==
    /\ last.op = "add_snippet_from_json"
    /\ last.error = "DuplicateId"
    /\ Cardinality(DOMAIN snippets_by_category) = 1

\* C3: whatever was loaded, cleared and migrated before, and in whatever
\* order the index is built, migrate_hash_to_id( h ) returns the null id
\* when no entry of the id index has legacy hash h, and otherwise a key of
\* the id index whose text has legacy hash h.
C3_NoStaleMigration ==
    \A h \in Hashes, order \in Orders(DOMAIN snippets_by_id) :
        LET id == migrate_hash_to_id(this, h, order).ret
        IN IF has_hash(h)
           THEN /\ id \in DOMAIN snippets_by_id
                /\ legacy_hash(snippets_by_id[id]) = Some(h)
           ELSE id = NULL_ID

\* migrate_hash_to_id rebuilt the index after id1, loaded before, was
\* cleared: hash 11 now leads to id2.
C3_Witness ==
    /\ last.op = "migrate_hash_to_id"
    /\ hash_to_id_migration # None
    /\ 11 \in DOMAIN hash_to_id_migration[1]
    /\ hash_to_id_migration[1][11] = "id2"
    /\ "id1" \in DOMAIN name_by_id
    /\ "id1" \notin DOMAIN snippets_by_id

\* C4: after every load call, returned or thrown, the migration index is
\* absent, and no index was written while it was still built.
C4_LoadInvalidates ==
    last.op \in LoadOps =>
        (hash_to_id_migration = None /\ ~last.stale_write)

\* A load call found the migration index built and then threw.
C4_Witness ==
    /\ last.op \in LoadOps
    /\ last.debugmsg > 0
    /\ last.error # ""

\* C5: no id occurs twice in the id sequences of all categories together,
\* and the null id occurs in none.
C5_GlobalIdUniqueness ==
    /\ \A id \in Ids : occurrences(id) <= 1
    /\ occurrences(NULL_ID) = 0

\* Two categories hold an id each and a further load threw DuplicateId.
C5_Witness ==
    /\ last.error = "DuplicateId"
    /\ \A c \in Categories :
          c \in DOMAIN snippets_by_category /\ snippets_by_category[c].ids # << >>

contents_only(r, cat) ==
    LET cs == category_at(r.snippets_by_category, cat)
        own == {cs.ids[i] : i \in DOMAIN cs.ids} \cap DOMAIN r.snippets_by_id
    IN [snippets_by_category |->
            IF cat \in DOMAIN r.snippets_by_category
            THEN map_put(empty_map, cat, cs) ELSE empty_map,
        snippets_by_id |-> [id \in own |-> r.snippets_by_id[id]],
        EOC_by_id |-> empty_map,
        name_by_id |-> empty_map,
        hash_to_id_migration |-> None,
        debugmsg |-> 0, error |-> "", stale_write |-> FALSE]

\* C7: the seeded draw depends on the contents of the category and the
\* seed only: it is the draw from a registry that holds nothing but those
\* contents.
C7_SeededDrawOfContents ==
    \A cat \in Categories, seed \in Seeds :
        random_from_category(this, cat, seed)
            = random_from_category(contents_only(this, cat), cat, seed)

\* C7: a step that is neither a load nor a clear leaves every seeded draw
\* as it was.
C7_SeededDrawKept ==
    (last'.op \notin LoadOps \cup {"clear_snippets"}) =>
        \A cat \in Categories, seed \in Seeds :
            random_from_category(this', cat, seed)
                = random_from_category(this, cat, seed)

\* C7: seeded selection is deterministic: a function of the category's
\* contents and the seed, unchanged by queries, migrate_hash_to_id and
\* unseeded draws.
C7_SeededDeterminism ==
    []C7_SeededDrawOfContents /\ [][C7_SeededDrawKept]_vars

\* A seeded draw was made from a category with ids and anonymous texts
\* while the migration index was built and maps outlived a clear.
C7_Witness ==
    /\ last.op = "random_from_category_seed"
    /\ hash_to_id_migration # None
    /\ \E c \in Categories : mixed(c)
    /\ DOMAIN name_by_id # DOMAIN snippets_by_id

\* C8: random_from_category( cat, seed ) is absent for an unknown or empty
\* category; otherwise the index i drawn for n = #ids + #anonymous lies in
\* [0, n) and the result is the id index text of the i-th id when
\* i < #ids and the (i - #ids)-th anonymous text otherwise.
C8_RandomFromCategory ==
    \A cat \in Categories, seed \in Seeds :
        LET res == random_from_category(this, cat, seed)
            cs == category_at(snippets_by_category, cat)
            n == Len(cs.ids) + Len(cs.no_id)
            i == dis(seed, n)
        IN IF cat \notin DOMAIN snippets_by_category \/ n = 0
           THEN res = None
           ELSE /\ i \in 0..(n - 1)
                /\ res # None
                /\ IF i < Len(cs.ids)
                   THEN /\ cs.ids[i + 1] \in DOMAIN snippets_by_id
                        /\ res = Some(snippets_by_id[cs.ids[i + 1]])
                   ELSE res = Some(cs.no_id[i - Len(cs.ids) + 1])

\* A seeded draw was made while a category held an id with text "Y" and an
\* anonymous text.
C8_Witness ==
    /\ last.op = "random_from_category_seed"
    /\ \E c \in Categories :
          /\ mixed(c)
          /\ snippets_by_id[snippets_by_category[c].ids[1]] = "Y"

\* C9: get_snippets_by_category( cat, add_null_id ) is empty for an unknown
\* category; otherwise it is one (id, translated text) pair per id of the
\* category, in stored order, after one (NULL_ID, "") pair exactly when
\* add_null_id is set and the category has an id; anonymous texts never
\* appear.
C9_ListByCategory ==
    \A cat \in Categories, add_null_id \in BOOLEAN :
        LET ret == get_snippets_by_category(this, cat, add_null_id)
        IN IF cat \notin DOMAIN snippets_by_category THEN ret = << >>
           ELSE LET ids == snippets_by_category[cat].ids
                    k == IF add_null_id /\ ids # << >> THEN 1 ELSE 0
                IN /\ Len(ret) = k + Len(ids)
                   /\ k = 1 => ret[1] = <<NULL_ID, "">>
                   /\ \A i \in DOMAIN ids :
                         /\ ids[i] \in DOMAIN snippets_by_id
                         /\ ret[k + i] =
                              <<ids[i], translated(snippets_by_id[ids[i]])>>

\* A listing was made while one category held only anonymous texts and
\* another held an id.
C9_Witness ==
    /\ last.op = "get_snippets_by_category"
    /\ \E c \in DOMAIN snippets_by_category :
          snippets_by_category[c].ids = << >>
    /\ \E c \in DOMAIN snippets_by_category :
          snippets_by_category[c].ids # << >>

\* C10: random_id_from_category( cat ) is the null id for an unknown
\* category and for one without ids; otherwise, anonymous texts or not, it
\* is one of the category's ids, a key of the id index.
C10_RandomIdFromCategory ==
    \A cat \in Categories :
        \A pick \in picks(this, cat) :
            LET id == random_id_from_category(this, cat, pick).ret
                ids == category_at(snippets_by_category, cat).ids
            IN IF ids = << >> THEN id = NULL_ID
               ELSE /\ \E i \in DOMAIN ids : ids[i] = id
                    /\ id \in DOMAIN snippets_by_id

\* random_id_from_category was called on a category with ids and anonymous
\* texts (it reported the anonymous ones).
C10_Witness ==
    /\ last.op = "random_id_from_category"
    /\ last.debugmsg = 1
    /\ \E c \in Categories : mixed(c)

-----------------------------------------------------------------------------
(* Tag expansion: C11 to C14.                                              *)

\* The first complete tag of a string: its first '<' and the next '>'.
has_tag(str) ==
    \E i, j \in 1..Len(str) : i < j /\ str[i] = "<" /\ str[j] = ">"

first_open(str) ==
    CHOOSE i \in 1..Len(str) :
        str[i] = "<" /\ \A k \in 1..(i - 1) : str[k] # "<"

first_close(str) ==
    CHOOSE j \in (first_open(str) + 1)..Len(str) :
        str[j] = ">" /\ \A k \in (first_open(str) + 1)..(j - 1) : str[k] # ">"

first_tag(str) == SubSeq(str, first_open(str), first_close(str))
before_tag(str) == SubSeq(str, 1, first_open(str) - 1)
after_tag(str) == SubSeq(str, first_close(str) + 1, Len(str))

\* The categories a tag names, and whether one of them has a snippet.
named(tag) == {c \in DOMAIN snippets_by_category : spell(c) = tag}

available(tag) ==
    \E c \in named(tag) :
        Len(snippets_by_category[c].ids)
            + Len(snippets_by_category[c].no_id) > 0

\* The displayed texts that a draw for the tag can give.
drawn_texts(tag) ==
    UNION {{spell(translated(snippets_by_id[snippets_by_category[c].ids[i]])) :
                i \in 1..Len(snippets_by_category[c].ids)}
           \cup {spell(translated(snippets_by_category[c].no_id[i])) :
                i \in 1..Len(snippets_by_category[c].no_id)} :
           c \in named(tag)}

\* A step in which the innermost expand returns, and the value it hands to
\* its caller, read where the caller has it afterwards.
Returns == ~idle /\ Len(stack') = Len(stack) - 1

returned_value ==
    IF stack' = << >> THEN expanded'[1].ret
    ELSE IF top.slot = "repl" THEN stack'[Len(stack')].r1[1]
    ELSE stack'[Len(stack')].r2[1]

\* What the nested expand( remainder ) of the innermost expand returned.
remainder_expanded == top.r2[1]

\* What the nested expand( drawn text ) of the innermost expand returned.
drawn_expanded == top.r1[1]

\* The expand calls nested directly in the i-th one, so far.
nested_in(i) == IF i < Len(stack) THEN {stack[i + 1]} ELSE {}

\* An expand whose first complete tag has no snippet calls expand on the
\* remainder after the tag and on nothing else.
C11_OnlyRemainder ==
    \A i \in 1..Len(stack) :
        (has_tag(stack[i].str) /\ ~available(first_tag(stack[i].str)))
            => \A g \in nested_in(i) :
                   g.slot = "rest" /\ g.str = after_tag(stack[i].str)

\* C11: when the first complete tag of the input names a category without
\* an available snippet, expand(input) is the input up to and including the
\* tag followed by expand(remainder), and the only nested call is the one on
\* the remainder: nothing before or inside the tag is scanned again.
C11_UnavailableTagVerbatim ==
    /\ []C11_OnlyRemainder
    /\ [][(Returns /\ has_tag(top.str) /\ ~available(first_tag(top.str)))
            => returned_value =
                   SubSeq(top.str, 1, first_close(top.str))
                       \o remainder_expanded]_vars

\* expand("<q<a><b>") returned "<q<a>" and the text of "<b>", "<a>" having
\* snippets.
C11_Witness ==
    /\ expanded # None
    /\ expanded[1].str = <<"<", "q", "<", "a", ">", "<", "b", ">">>
    /\ expanded[1].ret = <<"<", "q", "<", "a", ">", "y">>
    /\ available(<<"<", "a", ">">>)

\* An expand whose first complete tag gives a snippet calls expand on a
\* displayed text of the category and on the remainder after the tag.
C12_DrawnAndRemainder ==
    \A i \in 1..Len(stack) :
        (has_tag(stack[i].str) /\ available(first_tag(stack[i].str)))
            => \A g \in nested_in(i) :
                   \/ g.slot = "repl"
                        /\ g.str \in drawn_texts(first_tag(stack[i].str))
                   \/ g.slot = "rest" /\ g.str = after_tag(stack[i].str)

\* Category "<a>" holds only the text "<b>" and category "<b>" only "Y".
nested_example ==
    /\ {"<a>", "<b>"} \subseteq DOMAIN snippets_by_category
    /\ snippets_by_category["<a>"] = [ids |-> << >>, no_id |-> <<"<b>">>]
    /\ snippets_by_category["<b>"] = [ids |-> << >>, no_id |-> <<"Y">>]

\* C12: when a snippet is drawn for the first complete tag, expand(input) is
\* the text before the tag, then expand(drawn text), then expand(remainder);
\* the nested calls are on the drawn text and the remainder only and their
\* results are concatenated as they are.  With "<a>" holding only "<b>" and
\* "<b>" only "Y", expand("<a>") is the displayed text of "Y".
C12_DrawnTextExpanded ==
    /\ []C12_DrawnAndRemainder
    /\ [](nested_example /\ expanded # None
              /\ expanded[1].str = <<"<", "a", ">">>
            => expanded[1].ret = spell(translated("Y")))
    /\ [][(Returns /\ has_tag(top.str) /\ available(first_tag(top.str)))
            => returned_value =
                   before_tag(top.str) \o drawn_expanded
                       \o remainder_expanded]_vars

\* expand("<a>") returned on the library of the example.
C12_Witness ==
    /\ nested_example
    /\ expanded # None
    /\ expanded[1].str = <<"<", "a", ">">>
    /\ expanded[1].ret = <<"y">>

\* The category of that name has exactly one anonymous entry "X" and no
\* identified entry.
only_X(cat) ==
    /\ cat \in DOMAIN snippets_by_category
    /\ snippets_by_category[cat] = [ids |-> << >>, no_id |-> <<"X">>]

\* expand("<a>") has returned ret.
expanded_a(ret) ==
    /\ expanded # None
    /\ expanded[1].str = <<"<", "a", ">">>
    /\ expanded[1].ret = ret

\* C13 as stated: with the category loaded under the name a holding exactly
\* the anonymous entry "X", expand("<a>") returns the text of "X".
C13_BareCategoryName ==
    (only_X("a") /\ expanded # None /\ expanded[1].str = <<"<", "a", ">">>)
        => expanded_a(spell(translated("X")))

\* C13: with the category loaded under the name "<a>", delimiters included,
\* holding exactly the anonymous entry "X", expand("<a>") returns the
\* displayed text of "X"; without a category of that name it returns "<a>",
\* whatever the category named a holds.
C13_TagIsCategoryName ==
    (expanded # None /\ expanded[1].str = <<"<", "a", ">">>)
        => /\ only_X("<a>") => expanded_a(spell(translated("X")))
           /\ "<a>" \notin DOMAIN snippets_by_category
                  => expanded_a(<<"<", "a", ">">>)

\* expand("<a>") returned the text of "X" drawn from the category "<a>", no
\* category being named a.
C13_Witness ==
    /\ only_X("<a>")
    /\ "a" \notin DOMAIN snippets_by_category
    /\ expanded_a(<<"x">>)

\* The complete tags of a string as expand meets them: the first one, and
\* those of the remainder after it.
RECURSIVE tags_of(_)
tags_of(str) ==
    IF ~has_tag(str) THEN {}
    ELSE {first_tag(str)} \cup tags_of(after_tag(str))

\* The cross-reference relation: category A refers to category B if a
\* displayed text of A contains a complete tag naming B.
refers(A, B) ==
    /\ {A, B} \subseteq DOMAIN snippets_by_category
    /\ \E text \in drawn_texts(spell(A)) : spell(B) \in tags_of(text)

referred(S) ==
    {B \in DOMAIN snippets_by_category : \E A \in S : refers(A, B)}

RECURSIVE closure(_)
closure(S) ==
    IF referred(S) \subseteq S THEN S ELSE closure(S \cup referred(S))

\* The categories reached from A in one or more references.
reached_from(A) == closure(referred({A}))

Acyclic == \A A \in DOMAIN snippets_by_category : A \notin reached_from(A)

Max(S) == CHOOSE x \in S : \A y \in S : y <= x

\* The categories on the longest chain of references from A, when acyclic.
RECURSIVE depth(_)
depth(A) == 1 + Max({depth(B) : B \in referred({A})} \cup {0})

relation_depth == Max({depth(A) : A \in DOMAIN snippets_by_category} \cup {0})

\* A nested call on a remainder works on a strictly shorter suffix.
C14_RemainderShorter ==
    \A i \in 2..Len(stack) :
        stack[i].slot = "rest"
            => /\ Len(stack[i].str) < Len(stack[i - 1].str)
               /\ stack[i].str =
                      SubSeq(stack[i - 1].str,
                             Len(stack[i - 1].str) - Len(stack[i].str) + 1,
                             Len(stack[i - 1].str))

\* Under an acyclic relation the expansions of drawn texts nest no deeper
\* than the relation, and no expand runs inside an expand of the same string.
C14_NestingBounded ==
    Acyclic
        => /\ Cardinality({i \in 1..Len(stack) : stack[i].slot = "repl"})
                  <= relation_depth
           /\ \A i, j \in 1..Len(stack) :
                  i < j => stack[i].str # stack[j].str

\* Every reference can be followed: some seed draws from A a text with a
\* tag naming B.
C14_ReferenceDrawn ==
    \A A, B \in DOMAIN snippets_by_category :
        refers(A, B)
            => \E seed \in Seeds :
                   LET drawn == random_from_category(this, A, seed)
                   IN /\ drawn # None
                      /\ spell(B) \in tags_of(spell(translated(drawn[1])))

\* C14: under an acyclic cross-reference relation every expand that is
\* running returns; a nested call on a remainder works on a strictly shorter
\* suffix and the nesting of drawn-text expansions is bounded by the depth of
\* the relation.  Every reference of the relation can be drawn, so along a
\* cycle expand can nest without end.
C14_TerminatesIffAcyclic ==
    /\ []C14_RemainderShorter
    /\ []C14_NestingBounded
    /\ []C14_ReferenceDrawn
    /\ (~idle /\ Acyclic) ~> idle

\* Under a cyclic relation, an expand of a string with a tag runs inside an
\* expand of the same string: what led from the one to the other can be
\* repeated without end.
C14_Witness ==
    /\ ~Acyclic
    /\ \E i, j \in 1..Len(stack) :
          /\ i < j
          /\ stack[i].str = stack[j].str
          /\ has_tag(stack[j].str)
          /\ stack[j].pc = "start"

-----------------------------------------------------------------------------
(* Migration, payloads, failing loads: C15 to C18.                         *)

\* The calls that invalidate the migration index.
Invalidations == LoadOps \cup {"clear_snippets"}

\* The id that migrate_hash_to_id( old_hash ) returns from a built index.
migrated(index, old_hash) ==
    IF old_hash \in DOMAIN index[1] THEN index[1][old_hash] ELSE NULL_ID

\* Once built, the index answers whatever the iteration order would be.
C15_BuiltIndexAnswers ==
    hash_to_id_migration # None
        => \A old_hash \in Hashes, order \in Orders(DOMAIN snippets_by_id) :
               LET res == migrate_hash_to_id(this, old_hash, order)
               IN /\ res.ret = migrated(hash_to_id_migration, old_hash)
                  /\ res.reg = this

\* C15: the migration index is built at most once per invalidation cycle:
\* migrate_hash_to_id builds it only when it is absent and otherwise leaves
\* it as it is, a built index changes only by an invalidation (a load or a
\* clear), which removes it, and so all calls of a cycle with the same
\* old_hash return the same id.
C15_BuiltOncePerCycle ==
    /\ []C15_BuiltIndexAnswers
    /\ [][/\ last'.op = "migrate_hash_to_id"
              => /\ hash_to_id_migration' # None
                 /\ hash_to_id_migration # None
                        => hash_to_id_migration' = hash_to_id_migration
          /\ (hash_to_id_migration # None
                /\ hash_to_id_migration' # hash_to_id_migration)
              => /\ last'.op \in Invalidations
                 /\ hash_to_id_migration' = None]_vars

\* migrate_hash_to_id returned with two ids of the same legacy hash loaded,
\* so that a rebuilt index could differ from the one in use.
C15_Witness ==
    /\ last.op = "migrate_hash_to_id"
    /\ hash_to_id_migration # None
    /\ DOMAIN snippets_by_id = Ids
    /\ \A id \in Ids : legacy_hash(snippets_by_id[id]) = Some(11)

\* C16: get_EOC_by_id(id) returns a payload if and only if the id is
\* registered and the entry that defines it declared effect_on_examine, and
\* get_name_by_id(id) is present only for a registered id.  (Of the objects
\* loaded here, the one that declares an effect is the one that declares the
\* name "N", and name_by_id[id] is written by every load of an id.)
C16_PayloadOnlyDeclared ==
    \A id \in AllIds :
        /\ get_EOC_by_id(this, id) # None
              <=> /\ has_snippet_with_id(this, id)
                  /\ get_name_by_id(this, id) = Some("N")
        /\ get_name_by_id(this, id) # None => has_snippet_with_id(this, id)

\* The four maps that hold the loaded content.
content(r) ==
    <<r.snippets_by_category, r.snippets_by_id, r.EOC_by_id, r.name_by_id>>

\* The first element of the array at which the load fails.
failing_element(category, jarr) ==
    CHOOSE k \in 1..Len(jarr) :
        /\ add_snippets_from_json(this, category, SubSeq(jarr, 1, k)).error # ""
        /\ \A j \in 1..(k - 1) :
              add_snippets_from_json(this, category, SubSeq(jarr, 1, j)).error
                  = ""

\* The null id is a key of no index.
C17_NullIdNowhere ==
    /\ NULL_ID \notin
           DOMAIN snippets_by_id \cup DOMAIN EOC_by_id \cup DOMAIN name_by_id
    /\ \A c \in DOMAIN snippets_by_category :
          \A i \in 1..Len(snippets_by_category[c].ids) :
              snippets_by_category[c].ids[i] # NULL_ID

\* An array load that fails leaves the content that loading the elements
\* before the first failing one gives, and the migration index absent.
C17_ArrayKeepsElementsBefore ==
    idle =>
        \A category \in Categories, jarr \in JsonArrays :
            LET r == add_snippets_from_json(this, category, jarr)
            IN r.error # ""
                 => LET k == failing_element(category, jarr)
                        before ==
                            add_snippets_from_json(this, category,
                                                   SubSeq(jarr, 1, k - 1))
                    IN /\ before.error = ""
                       /\ content(r) = content(before)
                       /\ r.hash_to_id_migration = None

unbuilt == [this EXCEPT !.hash_to_id_migration = None]

\* What a load leaves: the content, the migration index, the exception.
outcome(r) == <<content(r), r.hash_to_id_migration, r.error>>

\* Every load does to a library with a built index what it does to the same
\* library without one.
C18_LoadProceeds ==
    hash_to_id_migration # None =>
        /\ \A jsobj \in LoadObjects :
              outcome(load_snippet(this, jsobj))
                  = outcome(load_snippet(unbuilt, jsobj))
        /\ \A category \in Categories :
              /\ \A jarr \in JsonArrays :
                    outcome(add_snippets_from_json(this, category, jarr))
                        = outcome(add_snippets_from_json(unbuilt, category,
                                                         jarr))
              /\ \A jo \in JsonObjects :
                    outcome(add_snippet_from_json(this, category, jo))
                        = outcome(add_snippet_from_json(unbuilt, category, jo))

\* C18: a load call emits the stale-use diagnostic if and only if the
\* migration index is built when it is called, and then exactly once, the
\* nested loaders finding the index already reset; the load does what it
\* does without the diagnostic; the index is built by migrate_hash_to_id
\* only, so a load that follows a load or a clear emits none.
C18_StaleDiagnosticOnce ==
    /\ []C18_LoadProceeds
    /\ [](last.op \in Invalidations => hash_to_id_migration = None)
    /\ [][/\ last'.op \in LoadOps
              => /\ last'.debugmsg
                        = IF hash_to_id_migration # None THEN 1 ELSE 0
                 /\ last.op \in Invalidations => last'.debugmsg = 0
          /\ (hash_to_id_migration = None /\ hash_to_id_migration' # None)
              => last'.op = "migrate_hash_to_id"]_vars

\* load_snippet emitted the diagnostic and registered its entries.
C18_Witness ==
    /\ last.op = "load_snippet"
    /\ last.debugmsg = 1
    /\ last.error = ""
    /\ \E c \in Categories :
          /\ DOMAIN snippets_by_category = {c}
          /\ snippets_by_category[c] = [ids |-> <<"id2">>, no_id |-> <<"X">>]

-----------------------------------------------------------------------------
(* Queries and categories: C19, C20.                                       *)

QueryOps ==
    {"has_category", "get_snippet_by_id", "get_EOC_by_id", "get_name_by_id",
     "get_snippet_ref_by_id", "has_snippet_with_id", "random_id_from_category",
     "random_from_category", "random_from_category_seed",
     "get_snippets_by_category", "expand"}

\* C19: the queries, every step of expand included, leave the four content
\* maps and the migration index as they are, so a query for an unknown
\* category or id creates no entry; migrate_hash_to_id leaves the four
\* content maps as they are.
C19_QueriesReadOnly ==
    [][/\ (last'.op \in QueryOps \/ ~idle \/ ~idle')
           => UNCHANGED <<snippets_by_category, snippets_by_id, EOC_by_id,
                          name_by_id, hash_to_id_migration>>
       /\ last'.op = "migrate_hash_to_id"
           => UNCHANGED <<snippets_by_category, snippets_by_id, EOC_by_id,
                          name_by_id>>]_vars

\* get_snippets_by_category returned for a category that is not loaded.
C19_Witness ==
    /\ last.op = "get_snippets_by_category"
    /\ \E c \in Categories : ~has_category(this, c)

\* C20: every category present in snippets_by_category has at least one
\* identified or anonymous entry, whatever calls were made, failed loads
\* included; so has_category(cat) holds if and only if
\* random_from_category(cat, seed) returns a text, for every seed.
C20_NoEmptyCategory ==
    /\ \A c \in DOMAIN snippets_by_category :
          Len(snippets_by_category[c].ids)
              + Len(snippets_by_category[c].no_id) > 0
    /\ \A cat \in Categories \cup {"a"}, seed \in Seeds :
          has_category(this, cat)
              <=> random_from_category(this, cat, seed) # None

\* A load failed, one category being loaded and another not.
C20_Witness ==
    /\ last.op \in LoadOps
    /\ last.error # ""
    /\ \E c, d \in Categories : has_category(this, c) /\ ~has_category(this, d)

=============================================================================
